---- MODULE Spec2Model ----
(***************************************************************************)
(* PAS sensor emulator: the three sketches of the repository               *)
(*   fixed-calibration  (src/unnamed/part_000)                             *)
(*   LUT                (src/emulator_LUTthrottle.ino)                     *)
(*   v3 (LUT + buzz)    (src/v3_emulator_buzz.ino)                         *)
(* modelled as polling state machines driven by the micros() clock and the *)
(* analogRead() sample.  The three sketches are separate programs; they    *)
(* are run here side by side on the same (clock reading, sample) pair of   *)
(* each pass so that their PAS channels can be compared.                   *)
(***************************************************************************)
EXTENDS Integers, Sequences, FiniteSets

(***************************************************************************)
(* Configuration constants of the sketches.                                *)
(***************************************************************************)
THROTTLE_MIN == 220
THROTTLE_MAX == 820
MIN_FREQUENCY == 5
MAX_FREQUENCY == 25
DUTY_CYCLE == 25
AUDIO_MULTIPLIER == 50
DEBUG_MODE == TRUE
SERIAL_INTERVAL == 250000
throttlePoints == <<220, 350, 500, 700, 820>>
frequencyPoints == <<0, 8, 14, 22, 25>>
tableSize == Len(throttlePoints)
ADC_MAX == 1023

\* micros() and every timestamp are `unsigned long`: 32 bits on the AVR target.
\* A 32-bit word is kept as the pair <<high half, low half>> of 16-bit halves,
\* so that every number the model computes stays below 2^31.
Half == 65536
Word(n) == <<n \div Half, n % Half>>
Zero == <<0, 0>>

(***************************************************************************)
(* C arithmetic.                                                           *)
(***************************************************************************)
Abs(a) == IF a < 0 THEN -a ELSE a

\* C integer division: the quotient is truncated toward zero (b # 0).
TruncDiv(a, b) ==
  LET q == Abs(a) \div Abs(b)
  IN  IF (a < 0) # (b < 0) THEN -q ELSE q

\* unsigned long addition a + b of two words, reduced modulo 2^32.
UAdd(a, b) ==
  LET lo == a[2] + b[2]
  IN  <<(a[1] + b[1] + lo \div Half) % Half, lo % Half>>

\* Faulty variant of USub: no wraparound, a difference below zero reads as 0
\* (what comparing absolute timestamps amounts to).
USubSigned(a, b) ==
  IF a[1] < b[1] \/ (a[1] = b[1] /\ a[2] < b[2])
  THEN Zero
  ELSE LET lo == a[2] - b[2]
       IN  <<(a[1] - b[1] - (IF lo < 0 THEN 1 ELSE 0)) % Half, lo % Half>>

\* unsigned long subtraction a - b of two words: the result is reduced modulo 2^32.
USub(a, b) ==
  LET lo == a[2] - b[2]
  IN  <<(a[1] - b[1] - (IF lo < 0 THEN 1 ELSE 0)) % Half, lo % Half>>

\* unsigned comparison w >= d of a word with a duration d in 0 .. 2^31 - 1.
AtLeast(w, d) ==
  IF w[1] >= Half \div 2 THEN TRUE ELSE w[1] * Half + w[2] >= d

\* unsigned comparison a < b of two words.
Before(a, b) == a[1] < b[1] \/ (a[1] = b[1] /\ a[2] < b[2])

\* Arduino map(): (x - in_min) * (out_max - out_min) / (in_max - in_min) + out_min in long arithmetic.
map(x, in_min, in_max, out_min, out_max) ==
  TruncDiv((x - in_min) * (out_max - out_min), in_max - in_min) + out_min

\* Arduino constrain(): clamp amt to [low, high].
constrain(amt, low, high) ==
  IF amt < low THEN low ELSE IF amt > high THEN high ELSE amt

(***************************************************************************)
(* Curve mapper: interpolate() of the LUT sketches.  The two sketches hold *)
(* the same function.  C arrays are 0-based, the sequences here 1-based.   *)
(***************************************************************************)
Min(S) == CHOOSE x \in S : \A y \in S : x <= y

\* The for loop: the first segment i with inputTable[i] <= inputValue <= inputTable[i+1],
\* or 0 when the loop runs to its end without returning.
interpolateSegment(inputValue, inputTable, tableLen) ==
  LET S == {i \in 1..(tableLen - 1) :
              inputValue >= inputTable[i] /\ inputValue <= inputTable[i + 1]}
  IN  IF S = {} THEN 0 ELSE Min(S)

\* Faulty variant of lerp: the division is taken before the multiplication.
lerpMisordered(inputValue, x0, y0, x1, y1) ==
  y0 + TruncDiv(inputValue - x0, x1 - x0) * (y1 - y0)

\* Faulty variant of lerp: the two outputs of the segment are exchanged.
lerpFromUpper(inputValue, x0, y0, x1, y1) ==
  TruncDiv(y1 * (x1 - x0) + (inputValue - x0) * (y0 - y1), x1 - x0)

\* float result = y0 + ((inputValue - x0) * (y1 - y0) / (x1 - x0)); return (long)result;
\* for x1 # x0.  The operands are integers of at most 10 bits, so the product
\* is exact in a 24-bit mantissa, the quotient and the sum are off by less
\* than 2^-12 < 1/(x1 - x0), and an exact value that is an integer is computed
\* exactly: the cast yields the exact rational value truncated toward zero.
lerp(inputValue, x0, y0, x1, y1) ==
  TruncDiv(y0 * (x1 - x0) + (inputValue - x0) * (y1 - y0), x1 - x0)

\* What (long) of a float that is infinite or NaN may yield (x1 = x0): any long;
\* these are the representatives kept.
UndefinedLongs == {-2147483647, -1, 0, 1, 2147483647}

\* Has interpolate() returned from one of its two boundary tests?
interpolateAtBoundary(inputValue, inputTable, tableLen) ==
  inputValue <= inputTable[1] \/ inputValue >= inputTable[tableLen]

\* The divisors x1 - x0 that one call evaluates (none on a boundary return or the fallback).
interpolateDivisors(inputValue, inputTable, tableLen) ==
  LET i == interpolateSegment(inputValue, inputTable, tableLen)
  IN  IF interpolateAtBoundary(inputValue, inputTable, tableLen) \/ i = 0
      THEN {}
      ELSE {inputTable[i + 1] - inputTable[i]}

\* The values one call may return.
interpolateReturns(inputValue, inputTable, outputTable, tableLen) ==
  IF inputValue <= inputTable[1] THEN {outputTable[1]}
  ELSE IF inputValue >= inputTable[tableLen] THEN {outputTable[tableLen]}
  ELSE LET i == interpolateSegment(inputValue, inputTable, tableLen)
       IN  IF i = 0 THEN {outputTable[1]}
           ELSE IF inputTable[i + 1] = inputTable[i] THEN UndefinedLongs
           ELSE {lerp(inputValue, inputTable[i], outputTable[i],
                      inputTable[i + 1], outputTable[i + 1])}

\* interpolate() where its return value is determined (every strictly increasing table).
interpolate(inputValue, inputTable, outputTable, tableLen) ==
  CHOOSE r \in interpolateReturns(inputValue, inputTable, outputTable, tableLen) : TRUE

\* Faulty variant of fixedFrequency: the result of map() is not constrained.
fixedFrequencyUnclamped(sample) ==
  map(sample, THROTTLE_MIN, THROTTLE_MAX, MIN_FREQUENCY, MAX_FREQUENCY)

\* Fixed-calibration sketch: map() then constrain(), inside `if (throttleValue > THROTTLE_MIN)`.
fixedFrequency(sample) ==
  constrain(map(sample, THROTTLE_MIN, THROTTLE_MAX, MIN_FREQUENCY, MAX_FREQUENCY),
            MIN_FREQUENCY, MAX_FREQUENCY)

(***************************************************************************)
(* Timing calculator.                                                      *)
(***************************************************************************)
\* Faulty variant of totalPeriod: the quotient is rounded to nearest.
totalPeriodRounded(frequency) == TruncDiv(1000000 + frequency \div 2, frequency)

\* unsigned long totalPeriodMicros = 1000000 / frequency;   (frequency > 0)
totalPeriod(frequency) == TruncDiv(1000000, frequency)

\* unsigned long highTimeMicros = totalPeriodMicros * (DUTY_CYCLE / 100.0);
\* (fixed and LUT sketches).  DUTY_CYCLE / 100.0 is 0.25, exact in binary, and
\* the period is below 2^24, so the floating product is exact and the
\* conversion to unsigned long drops its fraction.
highTimeFloat(totalPeriodMicros) == (totalPeriodMicros * DUTY_CYCLE) \div 100

\* Faulty variant of highDurationInt: DUTY_CYCLE / 100 is taken first, in integers.
highDurationDutyFirst(totalPeriodMicros) ==
  totalPeriodMicros * (DUTY_CYCLE \div 100)

\* pas.highDurationMicros = totalPeriodMicros * DUTY_CYCLE / 100;   (v3, unsigned long)
\* The product is at most 25000000 and does not wrap.
highDurationInt(totalPeriodMicros) ==
  (totalPeriodMicros * DUTY_CYCLE) \div 100

\* Faulty variant of updatePASTimingsDivisors: the division is not guarded.
updatePASTimingsDivisorsUnguarded(frequency) == {frequency}

\* The divisors of `1000000 / frequency` that updatePASTimings(frequency) evaluates.
updatePASTimingsDivisors(frequency) ==
  IF frequency > 0 THEN {frequency} ELSE {}

\* v3 updatePASTimings(frequency), on the sketch's state s.
updatePASTimings(s, frequency) ==
  LET totalPeriodMicros == totalPeriod(frequency)
      high == highDurationInt(totalPeriodMicros)
      t == IF frequency > 0
           THEN [s EXCEPT !.pas.highDurationMicros = high,
                          !.pas.lowDurationMicros = totalPeriodMicros - high]
           ELSE s
  IN  [t EXCEPT !.pas.currentFrequency = frequency,
                !.divisors = @ \cup updatePASTimingsDivisors(frequency)]

\* The divisors of `1000000UL / audioFrequency` that updateBuzzTimings(baseFrequency) evaluates.
updateBuzzTimingsDivisors(baseFrequency) ==
  IF baseFrequency > 0 THEN {baseFrequency * AUDIO_MULTIPLIER} ELSE {}

\* Faulty variant of updateBuzzTimings: the whole tone period, not half of it.
updateBuzzTimingsFullPeriod(s, baseFrequency) ==
  LET audioFrequency == baseFrequency * AUDIO_MULTIPLIER
      t == IF baseFrequency > 0
           THEN [s EXCEPT !.buzz.periodMicros = TruncDiv(1000000, audioFrequency)]
           ELSE [s EXCEPT !.buzz.periodMicros = 0]
  IN  [t EXCEPT !.divisors = @ \cup updateBuzzTimingsDivisors(baseFrequency)]

\* v3 updateBuzzTimings(baseFrequency).
updateBuzzTimings(s, baseFrequency) ==
  LET audioFrequency == baseFrequency * AUDIO_MULTIPLIER
      t == IF baseFrequency > 0
           THEN [s EXCEPT !.buzz.periodMicros =
                            TruncDiv(TruncDiv(1000000, audioFrequency), 2)]
           ELSE [s EXCEPT !.buzz.periodMicros = 0]
  IN  [t EXCEPT !.divisors = @ \cup updateBuzzTimingsDivisors(baseFrequency)]

(***************************************************************************)
(* Signal togglers.                                                        *)
(***************************************************************************)
\* Faulty variant of updatePASSignal: a Forced-Off pass restarts the hold timer.
updatePASSignalRearm(s, currentMicros) ==
  IF s.pas.currentFrequency <= 0
  THEN [s EXCEPT !.pasPin = FALSE, !.pas.outputHigh = FALSE,
                 !.pas.lastToggleMicros = currentMicros]
  ELSE IF s.pas.outputHigh
  THEN IF AtLeast(USub(currentMicros, s.pas.lastToggleMicros), s.pas.highDurationMicros)
       THEN [s EXCEPT !.pasPin = FALSE, !.pas.outputHigh = FALSE,
                      !.pas.lastToggleMicros = currentMicros]
       ELSE s
  ELSE IF AtLeast(USub(currentMicros, s.pas.lastToggleMicros), s.pas.lowDurationMicros)
       THEN [s EXCEPT !.pasPin = TRUE, !.pas.outputHigh = TRUE,
                      !.pas.lastToggleMicros = currentMicros]
       ELSE s

\* v3 updatePASSignal(currentMicros).
updatePASSignal(s, currentMicros) ==
  IF s.pas.currentFrequency <= 0
  THEN [s EXCEPT !.pasPin = FALSE, !.pas.outputHigh = FALSE]
  ELSE IF s.pas.outputHigh
  THEN IF AtLeast(USub(currentMicros, s.pas.lastToggleMicros), s.pas.highDurationMicros)
       THEN [s EXCEPT !.pasPin = FALSE, !.pas.outputHigh = FALSE,
                      !.pas.lastToggleMicros = currentMicros]
       ELSE s
  ELSE IF AtLeast(USub(currentMicros, s.pas.lastToggleMicros), s.pas.lowDurationMicros)
       THEN [s EXCEPT !.pasPin = TRUE, !.pas.outputHigh = TRUE,
                      !.pas.lastToggleMicros = currentMicros]
       ELSE s

\* v3 updateBuzzSignal(currentMicros).
updateBuzzSignal(s, currentMicros) ==
  IF ~DEBUG_MODE \/ s.buzz.periodMicros = 0
  THEN [s EXCEPT !.buzzPin = FALSE, !.buzz.outputHigh = FALSE]
  ELSE IF AtLeast(USub(currentMicros, s.buzz.lastToggleMicros), s.buzz.periodMicros)
  THEN [s EXCEPT !.buzz.outputHigh = ~s.buzz.outputHigh,
                 !.buzzPin = ~s.buzz.outputHigh,
                 !.buzz.lastToggleMicros = currentMicros]
  ELSE s

\* Faulty variant of updateSerialOutput: the interval since the last line is not tested.
updateSerialOutputUnlimited(s, currentMicros) ==
  [s EXCEPT !.serialLines = @ + 1, !.lastSerialOutput = currentMicros]

\* v3 updateSerialOutput(currentMicros); serialLines counts the status lines of the pass.
updateSerialOutput(s, currentMicros) ==
  IF AtLeast(USub(currentMicros, s.lastSerialOutput), SERIAL_INTERVAL)
  THEN [s EXCEPT !.serialLines = @ + 1, !.lastSerialOutput = currentMicros]
  ELSE s

\* v3 processThrottleInput(), with the value analogRead() returns.
processThrottleInput(s, sample) ==
  LET t == [s EXCEPT !.throttleValue = sample]
  IN  IF sample > throttlePoints[1]
      THEN LET frequency == interpolate(sample, throttlePoints, frequencyPoints, tableSize)
           IN  updateBuzzTimings(updatePASTimings(t, frequency), frequency)
      ELSE updateBuzzTimings(updatePASTimings(t, 0), 0)

\* Faulty variant of v3Loop: the PAS toggler runs before the sample is processed.
v3LoopToggleFirst(s, currentMicros, sample) ==
  LET s0 == [s EXCEPT !.serialLines = 0, !.divisors = {}]
      s1 == updatePASSignal(s0, currentMicros)
      s2 == processThrottleInput(s1, sample)
      s3 == updateBuzzSignal(s2, currentMicros)
  IN  IF DEBUG_MODE THEN updateSerialOutput(s3, currentMicros) ELSE s3

\* v3 loop(), with the values micros() and analogRead() return.
v3Loop(s, currentMicros, sample) ==
  LET s0 == [s EXCEPT !.serialLines = 0, !.divisors = {}]
      s1 == processThrottleInput(s0, sample)
      s2 == updatePASSignal(s1, currentMicros)
      s3 == updateBuzzSignal(s2, currentMicros)
  IN  IF DEBUG_MODE THEN updateSerialOutput(s3, currentMicros) ELSE s3

\* Faulty variant of stateMachine: both levels are held for highTimeMicros.
stateMachineOneDuration(st, currentMicros, highTimeMicros, lowTimeMicros) ==
  IF st.pasState /\ AtLeast(USub(currentMicros, st.previousMicros), highTimeMicros)
  THEN [st EXCEPT !.pasState = FALSE, !.previousMicros = currentMicros, !.pin = FALSE]
  ELSE IF ~st.pasState /\ AtLeast(USub(currentMicros, st.previousMicros), highTimeMicros)
  THEN [st EXCEPT !.pasState = TRUE, !.previousMicros = currentMicros, !.pin = TRUE]
  ELSE st

\* Faulty variant of stateMachine: a toggle does not record its clock reading.
stateMachineNoStamp(st, currentMicros, highTimeMicros, lowTimeMicros) ==
  IF st.pasState /\ AtLeast(USub(currentMicros, st.previousMicros), highTimeMicros)
  THEN [st EXCEPT !.pasState = FALSE, !.pin = FALSE]
  ELSE IF ~st.pasState /\ AtLeast(USub(currentMicros, st.previousMicros), lowTimeMicros)
  THEN [st EXCEPT !.pasState = TRUE, !.pin = TRUE]
  ELSE st

\* Faulty variant of stateMachine: the level flag changes, the pin is not written.
stateMachineFlagOnly(st, currentMicros, highTimeMicros, lowTimeMicros) ==
  IF st.pasState /\ AtLeast(USub(currentMicros, st.previousMicros), highTimeMicros)
  THEN [st EXCEPT !.pasState = FALSE, !.previousMicros = currentMicros]
  ELSE IF ~st.pasState /\ AtLeast(USub(currentMicros, st.previousMicros), lowTimeMicros)
  THEN [st EXCEPT !.pasState = TRUE, !.previousMicros = currentMicros]
  ELSE st

\* The state machine of the fixed and LUT sketches (the same statements in both).
stateMachine(st, currentMicros, highTimeMicros, lowTimeMicros) ==
  IF st.pasState /\ AtLeast(USub(currentMicros, st.previousMicros), highTimeMicros)
  THEN [st EXCEPT !.pasState = FALSE, !.previousMicros = currentMicros, !.pin = FALSE]
  ELSE IF ~st.pasState /\ AtLeast(USub(currentMicros, st.previousMicros), lowTimeMicros)
  THEN [st EXCEPT !.pasState = TRUE, !.previousMicros = currentMicros, !.pin = TRUE]
  ELSE st

\* Faulty variant of forceOff: the level flag is not cleared.
forceOffPinOnly(st) == [st EXCEPT !.pin = FALSE]

\* Faulty variant of forceOff: previousMicros is cleared as well.
forceOffClearTimer(st) == [st EXCEPT !.pin = FALSE, !.pasState = FALSE, !.previousMicros = Zero]

\* The else branches of both sketches: digitalWrite(PAS_PIN, LOW); pasState = LOW;
forceOff(st) == [st EXCEPT !.pin = FALSE, !.pasState = FALSE]

\* The timing statements and the state machine of one active pass (frequency > 0).
activePass(st, currentMicros, frequency) ==
  LET totalPeriodMicros == totalPeriod(frequency)
      highTimeMicros == highTimeFloat(totalPeriodMicros)
      lowTimeMicros == totalPeriodMicros - highTimeMicros
      t == [st EXCEPT !.frequency = frequency,
                      !.totalPeriodMicros = totalPeriodMicros,
                      !.highTimeMicros = highTimeMicros,
                      !.lowTimeMicros = lowTimeMicros,
                      !.divisors = {frequency}]
  IN  stateMachine(t, currentMicros, highTimeMicros, lowTimeMicros)

\* The locals of loop() are kept in the record; they read 0 in a pass that
\* does not compute them.
noLocals(st, sample) ==
  [st EXCEPT !.throttleValue = sample, !.frequency = 0, !.totalPeriodMicros = 0,
             !.highTimeMicros = 0, !.lowTimeMicros = 0, !.divisors = {}]

\* Fixed-calibration sketch: loop().
fixedLoop(st, currentMicros, sample) ==
  LET t == noLocals(st, sample)
  IN  IF sample > THROTTLE_MIN
      THEN activePass(t, currentMicros, fixedFrequency(sample))
      ELSE forceOff(t)

\* LUT sketch: loop().
lutLoop(st, currentMicros, sample) ==
  LET t == noLocals(st, sample)
  IN  IF sample > throttlePoints[1]
      THEN LET frequency == interpolate(sample, throttlePoints, frequencyPoints, tableSize)
           IN  IF frequency > 0
               THEN activePass(t, currentMicros, frequency)
               ELSE forceOff([t EXCEPT !.frequency = frequency])
      ELSE forceOff(t)

(***************************************************************************)
(* The sketches as state machines.                                         *)
(***************************************************************************)
VARIABLES
  pc,             \* "setup" before setup() has run, "loop" afterwards
  micros,         \* the micros() counter
  passes,         \* loop passes made so far
  currentMicros,  \* loop()'s local: the clock reading of the last pass
  fixed,          \* globals, pin and loop locals of the fixed-calibration sketch
  lut,            \* globals, pin and loop locals of the LUT sketch
  v3,             \* globals and pins of the v3 sketch
  pre,            \* fixed, lut and v3 as they were when the last pass began
  hist,           \* per sketch: the reactivation of the PAS channel after Forced-Off
  duty,           \* the time elapsed since setup() and the time each PAS pin was high
  fn              \* the call of the curve mapper under study (SpecFn)

vars == <<pc, micros, passes, currentMicros, fixed, lut, v3, pre, hist, duty, fn>>

\* Passes explored, and the samples and clock advances offered to each pass.
MaxPasses == 4
Samples == {220, 230, 520, 900}
\* WrapStep is 2^32 - 50000: it takes the clock to within 50000 us of its maximum.
WrapStep == <<Half - 1, Half - 50000>>
Deltas == {Word(300), Word(20000), Word(60000), WrapStep}

Sketches == {"fixed", "lut", "v3"}

\* Globals of the fixed and LUT sketches as the C runtime initialises them.
SketchInit ==
  [throttleValue |-> 0, pasState |-> FALSE, previousMicros |-> Zero, pin |-> FALSE,
   frequency |-> 0, totalPeriodMicros |-> 0, highTimeMicros |-> 0,
   lowTimeMicros |-> 0, divisors |-> {}]

\* Globals of v3 (zero-initialised; setup() assigns the same values again).
V3Init ==
  [pas |-> [outputHigh |-> FALSE, lastToggleMicros |-> Zero, highDurationMicros |-> 0,
            lowDurationMicros |-> 0, currentFrequency |-> 0],
   buzz |-> [outputHigh |-> FALSE, lastToggleMicros |-> Zero, periodMicros |-> 0],
   throttleValue |-> 0, lastSerialOutput |-> Zero,
   pasPin |-> FALSE, buzzPin |-> FALSE, serialLines |-> 0, divisors |-> {}]

HistInit ==
  [offSeen |-> FALSE, pending |-> FALSE, reactivatedAt |-> Zero, rise |-> FALSE, riseDelay |-> Zero,
   changedAt |-> Zero, byToggle |-> FALSE, phase |-> Zero, phaseTimed |-> FALSE]

\* No time has passed: step is the time from one pass to the next (SpecDuty),
\* span the time since setup(), high[k] the part of it sketch k's PAS pin was high.
DutyInit == [step |-> 0, span |-> 0, high |-> [k \in Sketches |-> 0]]

FnIdle == [mode |-> "idle"]

Init ==
  /\ pc = "setup"
  /\ micros = Zero
  /\ passes = 0
  /\ currentMicros = Zero
  /\ fixed = SketchInit
  /\ lut = SketchInit
  /\ v3 = V3Init
  /\ pre = [fixed |-> SketchInit, lut |-> SketchInit, v3 |-> V3Init]
  /\ hist = [k \in Sketches |-> HistInit]
  /\ duty = DutyInit
  /\ fn = FnIdle

\* setup() of the fixed and LUT sketches: digitalWrite(PAS_PIN, LOW).
sketchSetup(st) == [st EXCEPT !.pin = FALSE]

\* setup() of v3: both pins low, pas, buzz and lastSerialOutput reset.
v3Setup(s) ==
  [s EXCEPT !.pasPin = FALSE, !.buzzPin = FALSE,
            !.pas = V3Init.pas, !.buzz = V3Init.buzz, !.lastSerialOutput = Zero]

Setup ==
  /\ pc = "setup"
  /\ pc' = "loop"
  /\ fixed' = sketchSetup(fixed)
  /\ lut' = sketchSetup(lut)
  /\ v3' = v3Setup(v3)
  /\ UNCHANGED <<micros, passes, currentMicros, pre, hist, duty, fn>>

\* Bookkeeping of one PAS channel over a pass: active (target frequency > 0),
\* rose (the level went Low -> High), now (the pass's clock reading).
\* reactivatedAt is the clock reading of the first active pass that follows
\* one or more Forced-Off passes; riseDelay is the time from it to the first
\* rising edge, in the pass that makes that edge (rise).
\* changedAt is the clock reading of the pass that last changed the level
\* (changed) and byToggle tells that it did so by a timed toggle; in a pass
\* that changes the level, phase is the time the level it ends was held, and
\* phaseTimed tells that timed toggles both began and ended it.
histStep(h, active, rose, changed, now) ==
  LET at == IF h.offSeen THEN now ELSE h.reactivatedAt
      pend == h.offSeen \/ h.pending
  IN  [offSeen |-> ~active,
       pending |-> active /\ pend /\ ~rose,
       reactivatedAt |-> IF active THEN at ELSE Zero,
       rise |-> active /\ pend /\ rose,
       riseDelay |-> IF active /\ pend /\ rose THEN USub(now, at) ELSE Zero,
       changedAt |-> IF changed THEN now ELSE h.changedAt,
       byToggle |-> IF changed THEN active ELSE h.byToggle,
       phase |-> IF changed THEN USub(now, h.changedAt) ELSE Zero,
       phaseTimed |-> changed /\ active /\ h.byToggle]

\* One pass of loop() in each sketch: dt microseconds (a word) after the previous
\* pass, micros() is read and analogRead() returns sample.
loop(dt, sample) ==
  /\ pc = "loop"
  /\ micros' = UAdd(micros, dt)
  /\ currentMicros' = micros'
  /\ fixed' = fixedLoop(fixed, micros', sample)
  /\ lut' = lutLoop(lut, micros', sample)
  /\ v3' = v3Loop(v3, micros', sample)
  /\ pre' = [fixed |-> fixed, lut |-> lut, v3 |-> v3]
  /\ hist' = [k \in Sketches |->
               IF k = "fixed"
               THEN histStep(hist[k], fixed'.frequency > 0,
                             ~fixed.pasState /\ fixed'.pasState,
                             fixed.pin # fixed'.pin, micros')
               ELSE IF k = "lut"
               THEN histStep(hist[k], lut'.frequency > 0,
                             ~lut.pasState /\ lut'.pasState,
                             lut.pin # lut'.pin, micros')
               ELSE histStep(hist[k], v3'.pas.currentFrequency > 0,
                             ~v3.pas.outputHigh /\ v3'.pas.outputHigh,
                             v3.pasPin # v3'.pasPin, micros')]
  /\ UNCHANGED <<pc, fn>>

\* A pass with any of the samples of Samples.
Pass(dt, sample) ==
  /\ passes < MaxPasses
  /\ passes' = passes + 1
  /\ loop(dt, sample)
  /\ UNCHANGED duty

Next ==
  \/ Setup
  \/ \E dt \in Deltas, sample \in Samples : Pass(dt, sample)

Spec == Init /\ [][Next]_vars

\* The throttle held still: the first pass reads any sample of the ADC range
\* and every later pass reads that sample again.
MaxHeldPasses == 3

HeldSamples == IF passes = 0 THEN 0..ADC_MAX ELSE {v3.throttleValue}

HeldPass(dt, sample) ==
  /\ passes < MaxHeldPasses
  /\ passes' = passes + 1
  /\ loop(dt, sample)
  /\ UNCHANGED duty

NextHeld ==
  \/ Setup
  \/ \E dt \in Deltas, sample \in HeldSamples : HeldPass(dt, sample)

SpecHeld == Init /\ [][NextHeld]_vars

\* The long run: the throttle rests at DutySample (25 Hz: high for 10000 us,
\* low for 30000 us) and every pass comes the same time after the one before,
\* 100 us or 128 us (some ten thousand passes a second), for MaxDutyPasses passes.
MaxDutyPasses == 200000
DutySample == 900
DutySteps == {100, 128}

\* A pass step microseconds after the last: each PAS pin has held its level for step.
DutyPass(step) ==
  /\ passes < MaxDutyPasses
  /\ passes = 0 \/ step = duty.step
  /\ passes' = passes + 1
  /\ loop(Word(step), DutySample)
  /\ duty' = [step |-> step, span |-> duty.span + step,
              high |-> [k \in Sketches |->
                         duty.high[k] +
                           (IF k = "v3" THEN (IF v3.pasPin THEN step ELSE 0)
                            ELSE IF k = "lut" THEN (IF lut.pin THEN step ELSE 0)
                            ELSE IF fixed.pin THEN step ELSE 0)]]

NextDuty ==
  \/ Setup
  \/ \E step \in DutySteps : DutyPass(step)

SpecDuty == Init /\ [][NextDuty]_vars

\* The endless run: main() calls loop() for ever. The throttle rests at
\* LiveSample (2 Hz in the LUT sketches: high for 125000 us, low for 375000 us;
\* 6 Hz in the fixed-calibration sketch: high for 41666 us, low for 125000 us)
\* and each pass comes LiveStep microseconds after the one before, less than
\* every hold duration; the clock wraps every 131072 passes. passes stays at
\* 1 once a pass is made.
LiveSample == 260
LiveStep == Word(32768)

LivePass ==
  /\ passes' = 1
  /\ loop(LiveStep, LiveSample)
  /\ UNCHANGED duty

NextLive ==
  \/ Setup
  \/ LivePass

\* loop() is entered and reads micros(): what every step of LivePass, and no
\* other step of NextLive, does to the clock.
PassMade ==
  /\ pc = "loop"
  /\ micros' = UAdd(micros, LiveStep)

\* setup() returns, and loop() is called again whenever it has returned.
SpecLive == Init /\ [][NextLive]_vars /\ WF_vars(Setup) /\ WF_micros(PassMade)

(***************************************************************************)
(* The curve mapper on its own: one call of interpolate() on a table and a *)
(* sample (SpecFn), and the two mappers on a pair of samples (SpecPair).   *)
(***************************************************************************)
\* Tables other than the configured one: every non-decreasing input table of
\* 2 .. MaxTableLen points over 1 .. MaxInput, with any outputs in 0 .. MaxOutput.
MaxTableLen == 3
MaxInput == 4
MaxOutput == 2

NonDecreasing(t) == \A i \in 1..(Len(t) - 1) : t[i] <= t[i + 1]

\* A call of interpolate() about to run.
Call(v, i, o, n) ==
  [mode |-> "call", inputValue |-> v, inputTable |-> i, outputTable |-> o, tableLen |-> n]

MainIdle ==
  /\ pc = "setup"
  /\ micros = Zero
  /\ passes = 0
  /\ currentMicros = Zero
  /\ fixed = SketchInit
  /\ lut = SketchInit
  /\ v3 = V3Init
  /\ pre = [fixed |-> SketchInit, lut |-> SketchInit, v3 |-> V3Init]
  /\ hist = [k \in Sketches |-> HistInit]
  /\ duty = DutyInit

\* The call is made on the configured table with any sample of the ADC range,
\* or on a small table with any sample from below its first input to above
\* its last.
InitFn ==
  /\ MainIdle
  /\ \/ \E v \in 0..ADC_MAX : fn = Call(v, throttlePoints, frequencyPoints, tableSize)
     \/ \E n \in 2..MaxTableLen :
          \E i \in [1..n -> 1..MaxInput] :
            /\ NonDecreasing(i)
            /\ \E o \in [1..n -> 0..MaxOutput], v \in 0..(MaxInput + 1) :
                 fn = Call(v, i, o, n)

\* interpolate(inputValue, inputTable, outputTable, tableLen) runs and returns.
Interpolate ==
  /\ fn.mode = "call"
  /\ \E r \in interpolateReturns(fn.inputValue, fn.inputTable, fn.outputTable, fn.tableLen) :
       fn' = [mode |-> "returned", inputValue |-> fn.inputValue,
              inputTable |-> fn.inputTable, outputTable |-> fn.outputTable,
              tableLen |-> fn.tableLen, result |-> r,
              divisors |-> interpolateDivisors(fn.inputValue, fn.inputTable, fn.tableLen)]
  /\ UNCHANGED <<pc, micros, passes, currentMicros, fixed, lut, v3, pre, hist, duty>>

NextFn == Interpolate

SpecFn == InitFn /\ [][NextFn]_vars

\* The frequency the LUT sketches derive from a sample (the dead-zone test, then interpolate()).
lutFrequency(sample) ==
  IF sample > throttlePoints[1]
  THEN interpolate(sample, throttlePoints, frequencyPoints, tableSize)
  ELSE 0

\* The frequency the fixed-calibration sketch derives from a sample.
fixedTarget(sample) ==
  IF sample > THROTTLE_MIN THEN fixedFrequency(sample) ELSE 0

InitPair ==
  /\ MainIdle
  /\ fn \in {[mode |-> "first", s1 |-> a] : a \in (THROTTLE_MIN + 1)..ADC_MAX}

\* Both mappers are applied to s1 and to a larger sample s2 of the active range.
MapPair(s2) ==
  /\ fn.mode = "first"
  /\ fn' = [mode |-> "mapped", s1 |-> fn.s1, s2 |-> s2,
            lut1 |-> lutFrequency(fn.s1), lut2 |-> lutFrequency(s2),
            fixed1 |-> fixedTarget(fn.s1), fixed2 |-> fixedTarget(s2)]
  /\ UNCHANGED <<pc, micros, passes, currentMicros, fixed, lut, v3, pre, hist, duty>>

NextPair == \E s2 \in (fn.s1 + 1)..ADC_MAX : MapPair(s2)

SpecPair == InitPair /\ [][NextPair]_vars

(***************************************************************************)
(* Properties.                                                             *)
(***************************************************************************)
\* At least one pass of loop() has completed.
Passed == pc = "loop" /\ passes > 0

\* The PAS channel of each sketch after the last pass, and as the pass found it.
Level(k) == IF k = "v3" THEN v3.pas.outputHigh ELSE IF k = "lut" THEN lut.pasState ELSE fixed.pasState
Pin(k) == IF k = "v3" THEN v3.pasPin ELSE IF k = "lut" THEN lut.pin ELSE fixed.pin
Last(k) ==
  IF k = "v3" THEN v3.pas.lastToggleMicros
  ELSE IF k = "lut" THEN lut.previousMicros ELSE fixed.previousMicros
PreLevel(k) ==
  IF k = "v3" THEN pre.v3.pas.outputHigh
  ELSE IF k = "lut" THEN pre.lut.pasState ELSE pre.fixed.pasState
PrePin(k) == IF k = "v3" THEN pre.v3.pasPin ELSE IF k = "lut" THEN pre.lut.pin ELSE pre.fixed.pin
PreLast(k) ==
  IF k = "v3" THEN pre.v3.pas.lastToggleMicros
  ELSE IF k = "lut" THEN pre.lut.previousMicros ELSE pre.fixed.previousMicros
SampleOf(k) ==
  IF k = "v3" THEN v3.throttleValue
  ELSE IF k = "lut" THEN lut.throttleValue ELSE fixed.throttleValue
\* The target frequency of the pass, the hold durations it compares with.
Freq(k) ==
  IF k = "v3" THEN v3.pas.currentFrequency
  ELSE IF k = "lut" THEN lut.frequency ELSE fixed.frequency
HighOf(k) ==
  IF k = "v3" THEN v3.pas.highDurationMicros
  ELSE IF k = "lut" THEN lut.highTimeMicros ELSE fixed.highTimeMicros
LowOf(k) ==
  IF k = "v3" THEN v3.pas.lowDurationMicros
  ELSE IF k = "lut" THEN lut.lowTimeMicros ELSE fixed.lowTimeMicros
Hold(k) == IF PreLevel(k) THEN HighOf(k) ELSE LowOf(k)
Active(k) == Freq(k) > 0
\* The frequency the sketch's curve mapper assigns to the sample of the pass.
Target(k) == IF k = "fixed" THEN fixedTarget(SampleOf(k)) ELSE lutFrequency(SampleOf(k))

\* C1: after a pass whose sample is at or below the dead-zone threshold (220)
\* or whose mapped target frequency is <= 0, the PAS pin is low and the PAS
\* level flag is low, in each of the three sketches.
C1_ForcedOffLow ==
  Passed =>
    \A k \in Sketches :
      (SampleOf(k) <= 220 \/ Target(k) <= 0) => (~Pin(k) /\ ~Level(k))

\* A pass forces every channel off that it found High: the sample is in the
\* dead zone, or (LUT) above it with a mapped frequency of 0.
C1_Witness ==
  /\ Passed
  /\ \A k \in Sketches : PreLevel(k) /\ PrePin(k)
  /\ SampleOf("v3") = 220
  /\ \A k \in Sketches : ~Pin(k) /\ ~Level(k)

\* C2: when the PAS channel returns to a positive target frequency after one
\* or more Forced-Off passes, its first rising edge comes no earlier than
\* lowDuration microseconds after the first active pass.
C2_NoStaleToggle ==
  \A k \in Sketches : hist[k].rise => AtLeast(hist[k].riseDelay, LowOf(k))

\* The two's complement 2^32 - w of a word.
Neg(w) ==
  LET lo == (Half - w[2]) % Half
  IN  <<(Half - 1 - w[1] + (IF w[2] = 0 THEN 1 ELSE 0)) % Half, lo>>

\* The PAS level differs from the level the pass found.
Toggled(k) == Level(k) # PreLevel(k)

\* C3: in a pass of an active channel made after the clock has wrapped (the
\* clock reading is numerically smaller than lastToggleTime), the channel
\* toggles exactly when (currentTime - lastToggleTime) mod 2^32, that is
\* currentTime + (2^32 - lastToggleTime), is >= the hold duration of its level.
C3_WrapSafe ==
  Passed =>
    \A k \in Sketches :
      (Active(k) /\ Before(currentMicros, PreLast(k))) =>
        (Toggled(k) <=> AtLeast(UAdd(currentMicros, Neg(PreLast(k))), Hold(k)))

\* lastToggleTime is within 65536 us of the maximum, the clock has wrapped to
\* a small reading, 60000 us separate the two and the High channel falls.
C3_Witness ==
  /\ Passed
  /\ pre.v3.pas.lastToggleMicros[1] = Half - 1
  /\ currentMicros[1] = 0
  /\ UAdd(currentMicros, Neg(pre.v3.pas.lastToggleMicros)) = Word(60000)
  /\ v3.pas.currentFrequency > 0
  /\ pre.v3.pas.outputHigh /\ ~v3.pas.outputHigh
  /\ v3.pas.lastToggleMicros = currentMicros

\* C4: a pass of an active channel in which currentTime - lastToggleTime is
\* below the hold duration of the current level leaves the level flag, the
\* pin and lastToggleTime as they were.
C4_NotYetDue ==
  Passed =>
    \A k \in Sketches :
      (Active(k) /\ ~AtLeast(USub(currentMicros, PreLast(k)), Hold(k))) =>
        (Level(k) = PreLevel(k) /\ Pin(k) = PrePin(k) /\ Last(k) = PreLast(k))

\* A High channel is polled 300 us after its rising edge and stays High.
C4_Witness ==
  /\ Passed
  /\ \A k \in Sketches :
       /\ Active(k) /\ PreLevel(k) /\ Level(k) /\ Pin(k)
       /\ USub(currentMicros, PreLast(k)) = Word(300)
       /\ Last(k) = PreLast(k)

\* C5: after every pass with a target frequency f > 0 the hold durations
\* satisfy high + low = 1000000 div f and high = ((1000000 div f) * 25) div 100;
\* in v3 these are the stored pas.highDurationMicros and pas.lowDurationMicros.
C5_Timing ==
  Passed =>
    \A k \in Sketches :
      Freq(k) > 0 =>
        /\ HighOf(k) + LowOf(k) = 1000000 \div Freq(k)
        /\ HighOf(k) = ((1000000 \div Freq(k)) * 25) \div 100

\* A pass at 14 Hz (LUT) and 15 Hz (fixed) has stored its durations.
C5_Witness ==
  /\ Passed
  /\ v3.pas.currentFrequency = 14
  /\ v3.pas.highDurationMicros = 17857 /\ v3.pas.lowDurationMicros = 53571
  /\ lut.frequency = 14 /\ lut.highTimeMicros = 17857 /\ lut.lowTimeMicros = 53571
  /\ fixed.frequency = 15

\* C6 as stated: in the fixed-calibration sketch a pass with sample 520 computes
\* 15 Hz, a total period of 66667 us, a high duration of 16666 us and a low
\* duration of 50001 us.
C6_AsStated ==
  (Passed /\ fixed.throttleValue = 520) =>
    /\ fixed.frequency = 15
    /\ fixed.totalPeriodMicros = 66667
    /\ fixed.highTimeMicros = 16666
    /\ fixed.lowTimeMicros = 50001

\* C6, amended: in the fixed-calibration sketch a pass with sample 520 computes
\* 15 Hz, a total period of 66666 us (1000000 / 15 truncated), a high duration
\* of 16666 us and a low duration of 50000 us.
C6_Sample520 ==
  (Passed /\ fixed.throttleValue = 520) =>
    /\ fixed.frequency = 15
    /\ fixed.totalPeriodMicros = 66666
    /\ fixed.highTimeMicros = 16666
    /\ fixed.lowTimeMicros = 50000

\* A pass of the fixed-calibration sketch has read sample 520 and computed its timings.
C6_Witness ==
  /\ Passed
  /\ fixed.throttleValue = 520
  /\ fixed.divisors = {15}
  /\ fixed.totalPeriodMicros = fixed.highTimeMicros + fixed.lowTimeMicros

\* C7: in every sketch and for every sample in 0 .. 1023, each divisor of a
\* `1000000 / frequency` (and of v3's `1000000 / audioFrequency`) evaluated in
\* a pass is > 0, and a pass whose target frequency is <= 0 evaluates no such
\* division and leaves the PAS channel (and v3's buzz channel) forced off.
C7_DivisorsPositive ==
  Passed =>
    /\ \A d \in fixed.divisors \cup lut.divisors \cup v3.divisors : d > 0
    /\ Target("fixed") <= 0 => (fixed.divisors = {} /\ ~fixed.pin /\ ~fixed.pasState)
    /\ Target("lut") <= 0 => (lut.divisors = {} /\ ~lut.pin /\ ~lut.pasState)
    /\ Target("v3") <= 0 =>
         /\ v3.divisors = {}
         /\ ~v3.pasPin /\ ~v3.pas.outputHigh
         /\ ~v3.buzzPin /\ ~v3.buzz.outputHigh

\* Sample 230 lies above the dead zone and the LUT maps it to 0 Hz: the LUT
\* sketches divide nothing and hold their channels off, while the fixed
\* sketch divides by 5 and raises its channel.
C7_Witness ==
  /\ Passed
  /\ v3.throttleValue = 230
  /\ Target("v3") = 0 /\ v3.divisors = {} /\ lut.divisors = {}
  /\ ~v3.pasPin /\ ~v3.buzzPin /\ ~lut.pin
  /\ fixed.divisors = {5} /\ fixed.pin

\* Some two adjacent inputs of the table are equal.
HasEqualAdjacent(t) == \E i \in 1..(Len(t) - 1) : t[i] = t[i + 1]

\* v is the value of two equal adjacent inputs of t.
Duplicated(v, t) == \E i \in 1..(Len(t) - 1) : t[i] = v /\ t[i + 1] = v

\* C8: for a non-decreasing input table with two equal adjacent inputs,
\* interpolate never divides by a zero segment width, and a sample equal to
\* the duplicated input returns the output of the lower-indexed point of the
\* degenerate segment (the first point holding that input).
C8_DegenerateSegment ==
  (fn.mode = "returned" /\ HasEqualAdjacent(fn.inputTable)) =>
    /\ 0 \notin fn.divisors
    /\ Duplicated(fn.inputValue, fn.inputTable) =>
         fn.result = fn.outputTable[Min({i \in 1..fn.tableLen :
                                            fn.inputTable[i] = fn.inputValue})]

\* The part of C8 that the code satisfies: no call on a non-decreasing table
\* divides by a zero segment width.
C8_NoZeroDivisor ==
  fn.mode = "returned" => 0 \notin fn.divisors

\* The configured table is the one interpolated.
Configured == fn.inputTable = throttlePoints /\ fn.outputTable = frequencyPoints

\* C9: with the configured table and any sample s in 0 .. 1023, interpolate
\* returns outputs[1] for s <= inputs[1], outputs[N] for s >= inputs[N], and
\* otherwise outputs[i] + ((s - inputs[i]) * (outputs[i+1] - outputs[i])) div
\* (inputs[i+1] - inputs[i]) for each segment i that contains s; so outputs[i]
\* at every knot, 14 at sample 500 and 18 at sample 600.
C9_Interpolation ==
  (fn.mode = "returned" /\ Configured) =>
    LET s == fn.inputValue
        N == tableSize
    IN  /\ s <= throttlePoints[1] => fn.result = frequencyPoints[1]
        /\ s >= throttlePoints[N] => fn.result = frequencyPoints[N]
        /\ \A i \in 1..(N - 1) :
             (throttlePoints[1] < s /\ s < throttlePoints[N]
                /\ throttlePoints[i] <= s /\ s <= throttlePoints[i + 1]) =>
               fn.result = frequencyPoints[i]
                             + ((s - throttlePoints[i])
                                  * (frequencyPoints[i + 1] - frequencyPoints[i]))
                               \div (throttlePoints[i + 1] - throttlePoints[i])
        /\ \A i \in 1..N : s = throttlePoints[i] => fn.result = frequencyPoints[i]
        /\ s = 500 => fn.result = 14
        /\ s = 600 => fn.result = 18

\* interpolate has returned 18 for sample 600, inside the segment (500,14)-(700,22).
C9_Witness ==
  /\ fn.mode = "returned"
  /\ Configured
  /\ fn.inputValue = 600
  /\ fn.divisors = {200}
  /\ fn.result = 18

\* C10: for samples s1 < s2 of the active range 221 .. 1023 the frequency
\* mapped to s1 is <= the frequency mapped to s2, by the LUT interpolation
\* with the configured table and by the fixed-calibration map-then-clamp.
C10_Monotone ==
  fn.mode = "mapped" =>
    (fn.s1 < fn.s2 => (fn.lut1 <= fn.lut2 /\ fn.fixed1 <= fn.fixed2))

\* Samples 500 and 600 have been mapped: 14 and 18 Hz (LUT), 14 and 17 Hz (fixed).
C10_Witness ==
  /\ fn.mode = "mapped"
  /\ fn.s1 = 500 /\ fn.s2 = 600
  /\ fn.lut1 = 14 /\ fn.lut2 = 18
  /\ fn.fixed1 = 14 /\ fn.fixed2 = 17

\* C11: every sample s with 820 <= s <= 1023 yields the maximum frequency,
\* 25 Hz, in the LUT sketches and in the fixed-calibration sketch, and in the
\* fixed-calibration sketch every sample above THROTTLE_MIN yields a
\* frequency within MIN_FREQUENCY .. MAX_FREQUENCY.
C11_ClampedToMax ==
  Passed =>
    /\ \A k \in Sketches : (820 <= SampleOf(k) /\ SampleOf(k) <= 1023) => Freq(k) = 25
    /\ fixed.throttleValue > THROTTLE_MIN =>
         (MIN_FREQUENCY <= fixed.frequency /\ fixed.frequency <= MAX_FREQUENCY)

\* Sample 1023, which map() alone takes to 31 Hz, has been read: all three
\* sketches run at 25 Hz with a 40000 us period.
C11_Witness ==
  /\ Passed
  /\ \A k \in Sketches : SampleOf(k) = 1023 /\ Freq(k) = 25 /\ HighOf(k) + LowOf(k) = 40000
  /\ map(1023, THROTTLE_MIN, THROTTLE_MAX, MIN_FREQUENCY, MAX_FREQUENCY) = 31

\* C13: in v3 (DEBUG_MODE enabled), a pass whose base frequency f is > 0 flips
\* the buzz level, writes it to the buzz pin and sets buzz.lastToggleMicros to
\* the pass's clock reading exactly when currentTime - buzz.lastToggleMicros >=
\* (1000000 div (f * AUDIO_MULTIPLIER)) div 2, and leaves the buzz channel as it
\* was otherwise; a pass whose base frequency is <= 0 leaves the buzz pin low
\* and the buzz flag cleared; the buzz channel is Forced-Off in exactly the
\* passes in which the PAS channel is.
C13_BuzzToggle ==
  (Passed /\ DEBUG_MODE) =>
    LET f == v3.pas.currentFrequency
        elapsed == USub(currentMicros, pre.v3.buzz.lastToggleMicros)
    IN  /\ f > 0 =>
             IF AtLeast(elapsed, (1000000 \div (f * AUDIO_MULTIPLIER)) \div 2)
             THEN /\ v3.buzz.outputHigh = ~pre.v3.buzz.outputHigh
                  /\ v3.buzzPin = v3.buzz.outputHigh
                  /\ v3.buzz.lastToggleMicros = currentMicros
             ELSE /\ v3.buzz.outputHigh = pre.v3.buzz.outputHigh
                  /\ v3.buzzPin = pre.v3.buzzPin
                  /\ v3.buzz.lastToggleMicros = pre.v3.buzz.lastToggleMicros
        /\ f <= 0 => (~v3.buzzPin /\ ~v3.buzz.outputHigh)
        /\ (v3.buzz.periodMicros = 0) <=> (f <= 0)

\* At 14 Hz (half period 714 us) a pass 300 us after the toggle that raised
\* the buzz pin leaves it high.
C13_Witness ==
  /\ Passed
  /\ v3.pas.currentFrequency = 14 /\ v3.buzz.periodMicros = 714
  /\ pre.v3.buzz.outputHigh /\ pre.v3.buzzPin
  /\ USub(currentMicros, pre.v3.buzz.lastToggleMicros) = Word(300)
  /\ v3.buzz.outputHigh /\ v3.buzzPin
  /\ v3.buzz.lastToggleMicros = pre.v3.buzz.lastToggleMicros

\* v3 as the last pass left it before calling updateSerialOutput().
BeforeSerialOutput ==
  LET s0 == [pre.v3 EXCEPT !.serialLines = 0, !.divisors = {}]
      s1 == processThrottleInput(s0, v3.throttleValue)
  IN  updateBuzzSignal(updatePASSignal(s1, currentMicros), currentMicros)

\* C14: in v3 a pass emits a status line only when currentTime -
\* lastSerialOutput >= SERIAL_INTERVAL (modular), lastSerialOutput being the
\* clock reading of the previous emission, which the emitting pass replaces
\* by its own clock reading and no other pass changes; the emission leaves the
\* PAS and buzz channel state and both pins as they were.
C14_RateLimited ==
  Passed =>
    /\ v3.serialLines \in {0, 1}
    /\ v3.serialLines = 1 =>
         /\ AtLeast(USub(currentMicros, pre.v3.lastSerialOutput), SERIAL_INTERVAL)
         /\ v3.lastSerialOutput = currentMicros
    /\ v3.serialLines = 0 => v3.lastSerialOutput = pre.v3.lastSerialOutput
    /\ v3.pas = BeforeSerialOutput.pas /\ v3.buzz = BeforeSerialOutput.buzz
    /\ v3.pasPin = BeforeSerialOutput.pasPin /\ v3.buzzPin = BeforeSerialOutput.buzzPin

\* A second status line: an earlier pass emitted one, and this pass, which
\* raised the PAS pin, emits the next.
C14_Witness ==
  /\ Passed
  /\ v3.serialLines = 1
  /\ pre.v3.lastSerialOutput # Zero
  /\ v3.lastSerialOutput = currentMicros
  /\ v3.pasPin /\ ~pre.v3.pasPin

\* The hold durations that follow from the sample read in the last pass.
PeriodOfSample(k) == 1000000 \div Target(k)
HighOfSample(k) == (PeriodOfSample(k) * DUTY_CYCLE) \div 100
LowOfSample(k) == PeriodOfSample(k) - HighOfSample(k)

\* C15: a pass of an active PAS channel changes the level at most once, by
\* this rule: found High with elapsed >= highDuration, it leaves the level
\* Low, the pin low and lastToggleTime = currentTime; found Low with elapsed >=
\* lowDuration, it leaves the level High, the pin high and lastToggleTime =
\* currentTime; otherwise level, pin and lastToggleTime stay; the durations
\* compared are those that follow from the sample read in that same pass.
C15_ToggleRule ==
  Passed =>
    \A k \in Sketches :
      Active(k) =>
        LET elapsed == USub(currentMicros, PreLast(k))
        IN  /\ Target(k) = Freq(k)
            /\ IF PreLevel(k) /\ AtLeast(elapsed, HighOfSample(k))
               THEN ~Level(k) /\ ~Pin(k) /\ Last(k) = currentMicros
               ELSE IF ~PreLevel(k) /\ AtLeast(elapsed, LowOfSample(k))
               THEN Level(k) /\ Pin(k) /\ Last(k) = currentMicros
               ELSE Level(k) = PreLevel(k) /\ Pin(k) = PrePin(k) /\ Last(k) = PreLast(k)

\* Every channel, left High by a pass that read sample 520, is found High
\* 20000 us after it rose by a pass that reads 25 Hz (high for 10000 us), and falls.
C15_Witness ==
  /\ Passed
  /\ \A k \in Sketches :
       /\ Freq(k) = 25 /\ pre[k].throttleValue = 520
       /\ PreLevel(k) /\ ~Level(k) /\ ~Pin(k)
       /\ USub(currentMicros, PreLast(k)) = Word(20000)
       /\ Last(k) = currentMicros

\* v3 as the last pass left it after processThrottleInput().
AfterThrottleInput ==
  processThrottleInput([pre.v3 EXCEPT !.serialLines = 0, !.divisors = {}], v3.throttleValue)

\* C16: a pass changes the PAS lastToggleTime only by a timed toggle of an
\* active channel, which sets it to the pass's clock reading; a Forced-Off
\* pass leaves it as it was, also when it clears a High level; in v3 mapping
\* and timing calculation leave the level flag and lastToggleTime as they
\* were, and the buzz toggler and the diagnostics leave them as the PAS
\* toggler set them.
C16_TimerFrame ==
  Passed =>
    /\ \A k \in Sketches :
         /\ Last(k) # PreLast(k) => (Active(k) /\ Toggled(k) /\ Last(k) = currentMicros)
         /\ ~Active(k) => Last(k) = PreLast(k)
    /\ AfterThrottleInput.pas.outputHigh = pre.v3.pas.outputHigh
    /\ AfterThrottleInput.pas.lastToggleMicros = pre.v3.pas.lastToggleMicros
    /\ v3.pas = updatePASSignal(AfterThrottleInput, currentMicros).pas

\* A Forced-Off pass clears a High level and keeps the time of the toggle
\* that raised it.
C16_Witness ==
  /\ Passed
  /\ \A k \in Sketches :
       /\ ~Active(k) /\ PreLevel(k) /\ ~Level(k)
       /\ PreLast(k) # Zero /\ Last(k) = PreLast(k)

\* C17: at the end of setup() and of every pass, in each sketch the level
\* last written to the PAS pin equals the PAS level flag, and in v3 the level
\* last written to the buzz pin equals buzz.outputHigh.
C17_PinIsFlag ==
  pc = "loop" =>
    /\ \A k \in Sketches : Pin(k) = Level(k)
    /\ v3.buzzPin = v3.buzz.outputHigh

\* A pass has raised every PAS pin and the buzz pin.
C17_Witness ==
  /\ Passed
  /\ \A k \in Sketches : Pin(k) /\ Level(k) /\ ~PrePin(k)
  /\ v3.buzzPin /\ v3.buzz.outputHigh /\ ~pre.v3.buzzPin

\* C20: fed the same clock reading and the same sample in every pass, from the
\* same initial state, the PAS channels of the LUT sketch and of v3 have the
\* same pin level, the same level flag and the same last-toggle timestamp
\* after setup() and after every pass, Forced-Off passes and reactivation
\* included.
C20_LutMatchesV3 ==
  pc = "loop" =>
    /\ lut.pin = v3.pasPin
    /\ lut.pasState = v3.pas.outputHigh
    /\ lut.previousMicros = v3.pas.lastToggleMicros

\* Both channels, raised once and then Forced-Off, rise again in the pass
\* that reactivates them, at the same clock reading.
C20_Witness ==
  /\ Passed
  /\ hist["lut"].rise /\ hist["v3"].rise
  /\ pre.lut.previousMicros # Zero
  /\ lut.pin /\ v3.pasPin
  /\ lut.previousMicros = currentMicros /\ v3.pas.lastToggleMicros = currentMicros

\* C19: with the sample, and so the target frequency, held constant and > 0,
\* a level that a timed toggle began and a timed toggle ends has been on the
\* PAS pin for at least its hold duration of modular clock time: highDuration
\* for a High phase, lowDuration for a Low phase, however the passes are spaced.
C19_MinimumHold ==
  Passed =>
    \A k \in Sketches :
      (Active(k) /\ hist[k].phaseTimed) => AtLeast(hist[k].phase, Hold(k))

\* At 25 Hz the v3 channel, which a timed toggle took Low, rises again
\* 60000 us later (low for at least 30000 us).
C19_Witness ==
  /\ Passed
  /\ Freq("v3") = 25
  /\ hist["v3"].phaseTimed /\ hist["v3"].phase = Word(60000)
  /\ v3.pasPin /\ ~pre.v3.pasPin
  /\ pre.v3.pas.lastToggleMicros # Zero

\* C12: with the sample held at a value of frequency f > 0 and passes made
\* continuously, the time the PAS pin has been high in the span T since
\* setup() differs from T * DUTY_CYCLE / 100 by at most one period,
\* 1000000 / f microseconds (all three terms taken a hundredfold).
C12_DutyWithinOnePeriod ==
  Passed =>
    \A k \in Sketches :
      Active(k) =>
        Abs(100 * duty.high[k] - DUTY_CYCLE * duty.span) <= 100 * (1000000 \div Freq(k))

\* C18: with the sample held at a value of target frequency > 0 and passes
\* made for ever, each less than the hold durations after the one before, every
\* PAS pin is high infinitely often and low infinitely often.
C18_TogglesForever ==
  \A k \in Sketches : ([]<>Pin(k)) /\ ([]<>(pc = "loop" /\ ~Pin(k)))

\* The clock has wrapped to 0 and the pass that reads 0 takes the PAS pins of
\* the LUT sketch and of v3 low, 131072 us after they rose; the pin of the
\* fixed-calibration sketch fell 65536 us before, just ahead of the wrap.
C18_Witness ==
  /\ Passed
  /\ micros = Zero
  /\ \A k \in {"lut", "v3"} :
       /\ Freq(k) = 2 /\ PrePin(k) /\ ~Pin(k)
       /\ Last(k) = Zero /\ hist[k].phase = Word(131072)
  /\ Freq("fixed") = 6
  /\ ~Pin("fixed") /\ hist["fixed"].byToggle
  /\ USub(micros, hist["fixed"].changedAt) = Word(65536)

====
